---- MODULE Spec2Model ----
(***************************************************************************)
(* Simulated annealing with the non-improvement stopping criterion         *)
(* (src/l/simulated_annealing.py): the multiplicative cooling schedule     *)
(* factory, the two neighbourhood generators and the engine's run loop,    *)
(* as one state machine whose steps are the statements of the source.      *)
(*                                                                         *)
(* Floats.  A temperature or a cooling multiplier is a float of the form   *)
(* sgn * 2^e, written [sgn |-> s, e |-> e] (zero is [sgn |-> 0, e |-> 0]). *)
(* On these values IEEE-754 double multiplication is exact except for      *)
(* underflow below the least subnormal 2^MinExp, which FMul models.        *)
(* Costs are floats holding small integers, on which subtraction is exact. *)
(*                                                                         *)
(* Rankings are sequences; positions are 0-based as in the source.         *)
(***************************************************************************)
EXTENDS Integers, Sequences, FiniteSets, TLC

\* ---------------------------------------------------------------- bounds
MaxLen == 3          \* longest ranking
MaxL == 2            \* largest temperature_length
MaxK == 2            \* largest num_non_improve
MaxRounds == 2       \* most re-roll rounds counted in one generator call
MaxCool == 12        \* most cooling steps followed in one run

\* ------------------------------------------------------- float constants
MinExp == -1074      \* least subnormal double is 2^-1074
ExpZeroBelow == 746  \* math.exp(-x) = 0.0 for integer multiples x >= 746 (x > 745.13...)
ExpRangeAbove == 710 \* math.exp(x) raises OverflowError for x >= 710 (x > 709.78...)
ExpOneExp == 54      \* math.exp(-x) = 1.0 for 0 < x <= 2^-54

Zero == [sgn |-> 0, e |-> 0]
Pow2(e) == [sgn |-> 1, e |-> e]
NegPow2(e) == [sgn |-> -1, e |-> e]

RECURSIVE TwoTo(_)
TwoTo(k) == IF k <= 0 THEN 1 ELSE 2 * TwoTo(k - 1)

\* mutant: the product of reals, which never rounds to zero
FMulExact(a, b) ==
    IF a.sgn = 0 \/ b.sgn = 0 THEN Zero
    ELSE [sgn |-> a.sgn * b.sgn, e |-> a.e + b.e]

\* a * b on doubles of the form sgn * 2^e; a result below 2^MinExp in
\* magnitude rounds to zero (2^(MinExp-1) is a tie, broken to the even 0).
FMul(a, b) ==
    IF a.sgn = 0 \/ b.sgn = 0 THEN Zero
    ELSE IF a.e + b.e < MinExp THEN Zero
    ELSE [sgn |-> a.sgn * b.sgn, e |-> a.e + b.e]

FLess(a, b) ==
    CASE a.sgn < b.sgn -> TRUE
      [] a.sgn > b.sgn -> FALSE
      [] a.sgn = 1 -> a.e < b.e
      [] a.sgn = -1 -> a.e > b.e
      [] OTHER -> FALSE

\* ------------------------------------------------------------- rankings
Range(s) == {s[i] : i \in 1..Len(s)}

Perms(n) == {s \in [1..n -> 1..n] : Range(s) = 1..n}

\* list.pop(i) / list.insert(i, x) for 0 <= i, as used by the source
Pop(s, i) == [k \in 1..(Len(s) - 1) |-> IF k <= i THEN s[k] ELSE s[k + 1]]

Insert(s, i, x) ==
    LET j == IF i > Len(s) THEN Len(s) ELSE i
    IN  [k \in 1..(Len(s) + 1) |->
            IF k <= j THEN s[k] ELSE IF k = j + 1 THEN x ELSE s[k - 1]]

\* Python index i (negative counts from the end) as a 1-based position
PyIdx(s, i) == IF i < 0 THEN i + Len(s) + 1 ELSE i + 1

\* a[i], a[j] = a[j], a[i]
SwapAt(s, i, j) ==
    [k \in 1..Len(s) |->
        IF k = PyIdx(s, i) THEN s[PyIdx(s, j)]
        ELSE IF k = PyIdx(s, j) THEN s[PyIdx(s, i)]
        ELSE s[k]]

Abs(x) == IF x < 0 THEN -x ELSE x

\* ------------------------------------------------------ cost functions
\* The caller's cost function is a pure function of the ranking.  The model
\* offers three: the number of fixed points (the spec's example), the value
\* of the first element, and a constant.
CostFunctions == {"fixed", "head", "const"}

Cost(f, r) ==
    CASE f = "fixed" -> Cardinality({i \in 1..Len(r) : r[i] = i})
      [] f = "head" -> IF Len(r) = 0 THEN 0 ELSE r[1]
      [] OTHER -> 0

\* --------------------------------------------------- acceptance, line 137-138
\* p = math.exp(delta_cost / temperature) with delta_cost = -d < 0 (d < 746),
\* then rng.random() < p with rng.random() any multiple of 2^-53 in [0, 1).
MaxExp == 1024       \* a double quotient of magnitude >= 2^1024 is inf

\* d / 2^e >= bound, for an integer bound > d
RatioAtLeast(d, e, bound) == e <= 0 /\ (-e >= 10 \/ d * TwoTo(-e) >= bound)

\* d / 2^e overflows to inf
QuotientIsInf(d, e) ==
    -e >= MaxExp \/ (-e > MaxExp - 10 /\ d >= TwoTo(MaxExp + e))

\* exp(-d / 2^e) rounds to 1.0
ExpIsOne(d, e) == e >= ExpOneExp /\ (e - ExpOneExp >= 10 \/ d <= TwoTo(e - ExpOneExp))

AcceptOutcomes(delta, t) ==
    LET d == -delta
    IN  CASE t.sgn = 0 -> {"ZeroDivisionError"}
          [] t.sgn = 1 ->
                IF RatioAtLeast(d, t.e, ExpZeroBelow) THEN {"reject"}
                ELSE IF ExpIsOne(d, t.e) THEN {"accept"}
                ELSE {"accept", "reject"}
          [] OTHER ->
                IF QuotientIsInf(d, t.e) THEN {"accept"}
                ELSE IF RatioAtLeast(d, t.e, ExpRangeAbove) THEN {"OverflowError"}
                ELSE {"accept"}

\* ------------------------------------------------------------------ state
VARIABLES
    args,                                \* what the caller passes in
    cooling_schedule_function,           \* the closure the factory returned
    self,                                \* the engine's fields
    pc,                                  \* the statement about to run
    raised,                              \* the exception that ended the program
    temperature,
    current_solution,
    current_solution_cost,
    best_solution,
    best_solution_cost,
    number_of_uphill_moves,
    iterations_since_last_improvement,
    inner_i,                             \* iterations done by the for loop
    old_position,
    new_position,
    are_adjacent,
    neighbour_solution,
    delta_cost,
    rounds,                              \* rng.choice re-rolls in this generator call
    coin_flips,                          \* rng.random calls in this generator call
    accept_draws,                        \* rng.random calls by run in this iteration
    callback_calls,                      \* calls of the callback in this run
    callback_args,                       \* arguments of its latest call
    evals,                               \* neighbours scored in this run
    cooling_steps,                       \* cooling schedule applications in this run
    max_scored_cost,                     \* history: the highest cost computed so far
    result

params == <<args, cooling_schedule_function, self>>
nf_locals == <<old_position, new_position, are_adjacent, rounds, coin_flips>>
run_state == <<temperature, current_solution, current_solution_cost, best_solution,
               best_solution_cost, number_of_uphill_moves,
               iterations_since_last_improvement>>
iter_locals == <<neighbour_solution, delta_cost, accept_draws>>
counters == <<evals, cooling_steps, max_scored_cost>>
callback == <<callback_calls, callback_args>>
vars == <<params, pc, raised, run_state, inner_i, nf_locals, iter_locals,
          callback, counters, result>>

None == "None"
NoResult == <<>>

\* ----------------------------------------------------------------- inputs
Multipliers == {NegPow2(-1), Zero, Pow2(-1), Pow2(0), Pow2(1)}
GoodTemperatures == {Pow2(0), Pow2(-9), Pow2(MinExp)}
BadTemperatures == {Zero, NegPow2(0), NegPow2(-10)}
Generators == {"swap", "relocate"}

Args(temps, ls, ks, lens) ==
    [cooling_ratio_multiplier : Multipliers,
     initial_temperature : temps,
     temperature_length : ls,
     num_non_improve : ks,
     cost_function : CostFunctions,
     neighbourhood_function : Generators,
     initial_solution : UNION {Perms(n) : n \in lens}]

WellFormedArgs == Args(GoodTemperatures, 1..MaxL, 1..MaxK, 2..MaxLen)

AllArgs == Args(GoodTemperatures \cup BadTemperatures, 0..MaxL, 0..MaxK, 0..MaxLen)

MalformedArgs == AllArgs \ WellFormedArgs

InitWith(a) ==
    /\ args = a
    /\ cooling_schedule_function = None
    /\ self = None
    /\ pc = "factory"
    /\ raised = None
    /\ temperature = Zero
    /\ current_solution = <<>>
    /\ current_solution_cost = 0
    /\ best_solution = <<>>
    /\ best_solution_cost = 0
    /\ number_of_uphill_moves = 0
    /\ iterations_since_last_improvement = 0
    /\ inner_i = 0
    /\ old_position = 0
    /\ new_position = 0
    /\ are_adjacent = FALSE
    /\ neighbour_solution = <<>>
    /\ delta_cost = 0
    /\ rounds = 0
    /\ coin_flips = 0
    /\ accept_draws = 0
    /\ callback_calls = 0
    /\ callback_args = <<>>
    /\ evals = 0
    /\ cooling_steps = 0
    /\ max_scored_cost = 0
    /\ result = NoResult

Init == \E a \in WellFormedArgs : InitWith(a)

InitMalformed == \E a \in MalformedArgs : InitWith(a)

Raise(exc) ==
    /\ pc' = "raised"
    /\ raised' = exc

\* --------------------------------- get_multiplicative_cooling_schedule_function
\* mutant: the upper endpoint 1 is rejected too
InvalidMultiplierClosed(a) == FLess(a, Zero) \/ ~FLess(a, Pow2(0))

\* line 39: cooling_ratio_multiplier < 0 or cooling_ratio_multiplier > 1
InvalidMultiplier(a) == FLess(a, Zero) \/ FLess(Pow2(0), a)

\* lines 39-44
MakeCoolingSchedule ==
    /\ pc = "factory"
    /\ LET a == args.cooling_ratio_multiplier
       IN  IF InvalidMultiplier(a)
           THEN /\ Raise("Exception")
                /\ UNCHANGED cooling_schedule_function
           ELSE /\ cooling_schedule_function' = [cooling_ratio_multiplier |-> a]
                /\ pc' = "construct"
                /\ UNCHANGED raised
    /\ UNCHANGED <<args, self, run_state, inner_i, nf_locals, iter_locals,
                   callback, counters, result>>

\* the closure's body, line 43
CoolingSchedule(f, t) == FMul(f.cooling_ratio_multiplier, t)

\* ----------------------------------------------------------------- __init__
Construct ==
    /\ pc = "construct"
    /\ self' = [neighbourhood_function |-> args.neighbourhood_function,
                cost_function |-> args.cost_function,
                initial_temperature |-> args.initial_temperature,
                temperature_length |-> args.temperature_length,
                cooling_schedule_function |-> cooling_schedule_function,
                num_non_improve |-> args.num_non_improve]
    /\ pc' = "run"
    /\ UNCHANGED <<args, cooling_schedule_function, raised, run_state, inner_i,
                   nf_locals, iter_locals, callback, counters, result>>

\* ---------------------------------------------------------------------- run
\* lines 91-101
RunStart ==
    /\ pc = "run"
    /\ number_of_uphill_moves' = 0
    /\ iterations_since_last_improvement' = 0
    /\ temperature' = self.initial_temperature
    /\ current_solution' = args.initial_solution
    /\ current_solution_cost' = Cost(self.cost_function, args.initial_solution)
    /\ best_solution' = current_solution'
    /\ best_solution_cost' = current_solution_cost'
    /\ max_scored_cost' = current_solution_cost'
    /\ pc' = "while"
    /\ UNCHANGED <<params, raised, inner_i, nf_locals, iter_locals, callback,
                   evals, cooling_steps, result>>

\* mutant: the loop runs one iteration too long
LoopContinuesInclusive(non_improve, k) == non_improve <= k

\* line 104: while iterations_since_last_improvement < self.num_non_improve
LoopContinues(non_improve, k) == non_improve < k

WhileTest ==
    /\ pc = "while"
    /\ IF LoopContinues(iterations_since_last_improvement, self.num_non_improve)
       THEN pc' = "for" /\ inner_i' = 0
       ELSE pc' = "return" /\ UNCHANGED inner_i
    /\ UNCHANGED <<params, raised, run_state, nf_locals, iter_locals, callback,
                   counters, result>>

\* line 106: for _ in range(self.temperature_length)
ForTest ==
    /\ pc = "for"
    /\ IF inner_i < self.temperature_length
       THEN pc' = "generate"
       ELSE pc' = "cool"
    /\ UNCHANGED <<params, raised, run_state, inner_i, nf_locals, iter_locals,
                   callback, counters, result>>

\* mutant: new_ranking is the caller's list itself, not a copy of it
CallerRankingAliased(ranking, new_ranking) == new_ranking

\* lines 6 and 15: new_ranking = ranking[:] is a copy, so the swap at line 10
\* and the pop/insert at line 26 act on the copy and the list the caller
\* passed holds the same elements after the call
CallerRanking(ranking, new_ranking) == ranking

\* ------------------------------------------- neighbourhood_function, lines 5-12
\* rng.randrange(len(ranking)) raises ValueError on an empty ranking
AdjacentSwap ==
    /\ pc = "generate"
    /\ self.neighbourhood_function = "swap"
    /\ LET n == Len(current_solution)
       IN  IF n = 0
           THEN /\ Raise("ValueError")
                /\ UNCHANGED <<old_position, new_position, neighbour_solution,
                                current_solution>>
           ELSE \E r \in 0..(n - 1) :
                  LET old == IF r = n - 1 THEN r - 1 ELSE r
                      new == old + 1
                  IN  /\ old_position' = old
                      /\ new_position' = new
                      /\ neighbour_solution' = SwapAt(current_solution, old, new)
                      /\ current_solution' =
                             CallerRanking(current_solution, neighbour_solution')
                      /\ pc' = "score"
                      /\ UNCHANGED raised
    /\ UNCHANGED <<params, temperature, current_solution_cost, best_solution,
                   best_solution_cost, number_of_uphill_moves,
                   iterations_since_last_improvement, inner_i, are_adjacent, rounds,
                   coin_flips, delta_cost, accept_draws, callback, counters, result>>

\* ----------------------------------------- neighbourhood_function2, lines 14-28
\* lines 16-20; rng.sample(range(n), 2) raises ValueError when n < 2
RelocateSample ==
    /\ pc = "generate"
    /\ self.neighbourhood_function = "relocate"
    /\ LET n == Len(current_solution)
       IN  IF n < 2
           THEN /\ Raise("ValueError")
                /\ UNCHANGED <<old_position, new_position, are_adjacent>>
           ELSE \E old \in 0..(n - 1), new \in 0..(n - 1) :
                  /\ old # new
                  /\ old_position' = old
                  /\ new_position' = new
                  /\ are_adjacent' = (Abs(old - new) = 1)
                  /\ pc' = "reroll"
                  /\ UNCHANGED raised
    /\ UNCHANGED <<params, run_state, inner_i, rounds, coin_flips, iter_locals,
                   callback, counters, result>>

\* mutant: old_position is not excluded
AvailablePositionsAll(n, old) == 0..(n - 1)

\* line 20
AvailablePositions(n, old) == {x \in 0..(n - 1) : x # old}

\* a counter of the re-roll loop, which stops counting at MaxRounds
CountRound(c) == IF c < MaxRounds THEN c + 1 ELSE c

\* lines 22-24, one round: the coin shows < 0.5 and new_position is re-rolled.
\* The loop has no bound of its own: a round is possible whenever the
\* positions are adjacent.
RelocateReroll ==
    /\ pc = "reroll"
    /\ are_adjacent
    /\ \E new \in AvailablePositions(Len(current_solution), old_position) :
          /\ new_position' = new
          /\ are_adjacent' = (Abs(old_position - new) = 1)
    /\ rounds' = CountRound(rounds)
    /\ coin_flips' = CountRound(coin_flips)
    /\ UNCHANGED <<params, pc, raised, run_state, inner_i, old_position,
                   iter_locals, callback, counters, result>>

\* mutant: the two positions are exchanged
RelocateBySwap(ranking, old, new) == SwapAt(ranking, old, new)

\* line 26: new_ranking.insert(new_position, new_ranking.pop(old_position))
Relocate(ranking, old, new) == Insert(Pop(ranking, old), new, ranking[old + 1])

\* mutant: the coin is flipped before are_adjacent is looked at
CoinFlipsAtExitAlways(adjacent, flips) == flips + 1

\* line 22: "are_adjacent and rng.random() < 0.5" flips the coin only when
\* are_adjacent holds
CoinFlipsAtExit(adjacent, flips) == IF adjacent THEN flips + 1 ELSE flips

\* lines 22, 26-28: the loop ends (not adjacent: no coin; adjacent: the coin
\* shows >= 0.5) and the element is moved
RelocateReturn ==
    /\ pc = "reroll"
    /\ coin_flips' = CoinFlipsAtExit(are_adjacent, coin_flips)
    /\ neighbour_solution' = Relocate(current_solution, old_position, new_position)
    /\ current_solution' = CallerRanking(current_solution, neighbour_solution')
    /\ pc' = "score"
    /\ UNCHANGED <<params, raised, temperature, current_solution_cost, best_solution,
                   best_solution_cost, number_of_uphill_moves,
                   iterations_since_last_improvement, inner_i, old_position,
                   new_position, are_adjacent, rounds, delta_cost, accept_draws,
                   callback, counters, result>>

\* ------------------------------------------------- run, one scored neighbour
\* mutant: a zero delta goes to the worsening branch
AcceptsOutrightStrict(delta) == delta > 0

\* line 117: the neighbour is taken without a draw
AcceptsOutright(delta) == delta >= 0

\* mutant: the best is replaced whatever the neighbour's cost
IsNewBestAlways(cost, best_cost) == TRUE

\* mutant: a neighbour as good as the best counts as a new best
IsNewBestOrEqual(cost, best_cost) == cost >= best_cost

\* line 125: the neighbour is a new best
IsNewBest(cost, best_cost) == cost > best_cost

\* mutant: the current cost is not updated with the current solution
MoveToStaleCost(solution, cost) ==
    /\ current_solution' = solution
    /\ UNCHANGED current_solution_cost

\* lines 118-119 and 139-140: the neighbour becomes the current solution
MoveTo(solution, cost) ==
    /\ current_solution' = solution
    /\ current_solution_cost' = cost

\* lines 112-119, 125, 130-131 and 136-144
Score ==
    /\ pc = "score"
    /\ LET neighbour_solution_cost == Cost(self.cost_function, neighbour_solution)
           delta == neighbour_solution_cost - current_solution_cost
       IN  /\ delta_cost' = delta
           /\ evals' = evals + 1
           /\ max_scored_cost' = IF neighbour_solution_cost > max_scored_cost
                                 THEN neighbour_solution_cost
                                 ELSE max_scored_cost
           /\ IF AcceptsOutright(delta)
              THEN /\ MoveTo(neighbour_solution, neighbour_solution_cost)
                   /\ IF IsNewBest(neighbour_solution_cost, best_solution_cost)
                      THEN /\ pc' = "callback"
                           /\ UNCHANGED iterations_since_last_improvement
                      ELSE /\ pc' = "check"
                           /\ iterations_since_last_improvement' =
                                  iterations_since_last_improvement + 1
                   /\ UNCHANGED <<raised, number_of_uphill_moves, accept_draws>>
              ELSE \E outcome \in AcceptOutcomes(delta, temperature) :
                     CASE outcome = "accept" ->
                            /\ MoveTo(neighbour_solution, neighbour_solution_cost)
                            /\ number_of_uphill_moves' = number_of_uphill_moves + 1
                            /\ iterations_since_last_improvement' =
                                   iterations_since_last_improvement + 1
                            /\ accept_draws' = accept_draws + 1
                            /\ pc' = "check"
                            /\ UNCHANGED raised
                       [] outcome = "reject" ->
                            /\ iterations_since_last_improvement' =
                                   iterations_since_last_improvement + 1
                            /\ accept_draws' = accept_draws + 1
                            /\ pc' = "check"
                            /\ UNCHANGED <<raised, current_solution,
                                           current_solution_cost,
                                           number_of_uphill_moves>>
                       [] OTHER ->
                            /\ Raise(outcome)
                            /\ UNCHANGED <<current_solution, current_solution_cost,
                                           number_of_uphill_moves,
                                           iterations_since_last_improvement,
                                           accept_draws>>
    /\ UNCHANGED <<params, temperature, best_solution, best_solution_cost, inner_i,
                   nf_locals, neighbour_solution, callback, cooling_steps, result>>

\* line 126: self.better_solution_function(current_solution_cost, current_solution)
Callback ==
    /\ pc = "callback"
    /\ callback_calls' = callback_calls + 1
    /\ callback_args' = <<current_solution_cost, current_solution>>
    /\ pc' = "update_best"
    /\ UNCHANGED <<params, raised, run_state, inner_i, nf_locals, iter_locals,
                   counters, result>>

\* lines 127-129
UpdateBest ==
    /\ pc = "update_best"
    /\ best_solution' = current_solution
    /\ best_solution_cost' = current_solution_cost
    /\ iterations_since_last_improvement' = 0
    /\ pc' = "check"
    /\ UNCHANGED <<params, raised, temperature, current_solution,
                   current_solution_cost, number_of_uphill_moves, inner_i, nf_locals,
                   iter_locals, callback, counters, result>>

\* line 146: if iterations_since_last_improvement >= self.num_non_improve: break
Breaks(non_improve, k) == non_improve >= k

\* mutant: the break leaves the outer loop too, past the cooling at line 151
AfterBreakSkipsCooling == "while"

\* lines 147-151: break leaves only the for loop, at the same indentation as
\* line 151, so the cooling step follows it
AfterBreak == "cool"

\* lines 146-147 and the for loop's step.  The locals of the finished
\* iteration are dead (each is assigned before it is read again) and are
\* returned to their initial values.
BreakTest ==
    /\ pc = "check"
    /\ IF Breaks(iterations_since_last_improvement, self.num_non_improve)
       THEN pc' = AfterBreak /\ UNCHANGED inner_i
       ELSE pc' = "for" /\ inner_i' = inner_i + 1
    /\ old_position' = 0
    /\ new_position' = 0
    /\ are_adjacent' = FALSE
    /\ rounds' = 0
    /\ coin_flips' = 0
    /\ neighbour_solution' = <<>>
    /\ delta_cost' = 0
    /\ accept_draws' = 0
    /\ UNCHANGED <<params, raised, run_state, callback, counters, result>>

\* line 151: temperature = self.cooling_schedule_function(temperature)
Cool ==
    /\ pc = "cool"
    /\ cooling_steps < MaxCool
    /\ temperature' = CoolingSchedule(self.cooling_schedule_function, temperature)
    /\ cooling_steps' = cooling_steps + 1
    /\ pc' = "while"
    /\ UNCHANGED <<params, raised, current_solution, current_solution_cost,
                   best_solution, best_solution_cost, number_of_uphill_moves,
                   iterations_since_last_improvement, inner_i, nf_locals, iter_locals,
                   callback, evals, max_scored_cost, result>>

\* line 153
Return ==
    /\ pc = "return"
    /\ result' = <<best_solution, best_solution_cost, number_of_uphill_moves>>
    /\ pc' = "done"
    /\ UNCHANGED <<params, raised, run_state, inner_i, nf_locals, iter_locals,
                   callback, counters>>

Next ==
    \/ MakeCoolingSchedule
    \/ Construct
    \/ RunStart
    \/ WhileTest
    \/ ForTest
    \/ AdjacentSwap
    \/ RelocateSample
    \/ RelocateReroll
    \/ RelocateReturn
    \/ Score
    \/ Callback
    \/ UpdateBest
    \/ BreakTest
    \/ Cool
    \/ Return

Spec == Init /\ [][Next]_vars

SpecMalformed == InitMalformed /\ [][Next]_vars

\* the interpreter keeps executing the call: a step is taken whenever one is
\* possible.  Nothing is assumed about the values the random source returns.
\* (Every step changes pc or a local of run; the arguments are left out of the
\* subscript because they are compared with nothing once they are bound.)
run_locals ==
    <<pc, raised, run_state, inner_i, nf_locals, iter_locals, callback, counters,
      result>>

SpecRunning == Init /\ [][Next]_vars /\ WF_run_locals(Next)

\* ============================================================== properties
\* run has executed lines 91-101: the run's locals hold values
RunStarted ==
    \/ pc \in {"while", "for", "generate", "reroll", "score", "callback",
               "update_best", "check", "cool", "return", "done"}
    \/ (pc = "raised" /\ raised # "Exception")

\* the cost of the neighbour that line 112 is about to compute
NeighbourCost == Cost(args.cost_function, neighbour_solution)

InitialCost == Cost(args.cost_function, args.initial_solution)

\* C1: during run best_solution_cost never decreases from one state to the
\* next, and the best_solution_cost that run returns is at least the cost of
\* the initial solution.
C1_BestCostNonDecreasing ==
    /\ [][RunStarted => best_solution_cost' >= best_solution_cost]_vars
    /\ [](pc = "done" => result[2] >= InitialCost)

\* C1 witness: a run that accepted a worsening move, found a new best twice
\* and returned a cost above the initial one.
C1_Witness ==
    /\ pc = "done"
    /\ number_of_uphill_moves > 0
    /\ callback_calls >= 2
    /\ result[2] > InitialCost

\* C2: for K >= 1 and L >= 1, the counter of non-improving iterations stays
\* within 0..K and is K on return; once it has reached K no neighbour is
\* generated or scored any more; an iteration that finds a new best resets it
\* to 0 and every other completed iteration adds exactly 1; no other step
\* changes it.
C2_NonImproveStopping ==
    /\ [](RunStarted =>
            /\ 0 <= iterations_since_last_improvement
            /\ iterations_since_last_improvement <= args.num_non_improve)
    /\ [](pc = "done" => iterations_since_last_improvement = args.num_non_improve)
    /\ [][/\ iterations_since_last_improvement >= args.num_non_improve
             => /\ evals' = evals
                /\ iterations_since_last_improvement' = iterations_since_last_improvement
                /\ pc' \in {"cool", "while", "return", "done"}
          /\ pc = "score"
             => IF NeighbourCost >= current_solution_cost
                   /\ NeighbourCost > best_solution_cost
                THEN /\ pc' = "callback"
                     /\ iterations_since_last_improvement'
                            = iterations_since_last_improvement
                ELSE \/ /\ pc' = "check"
                        /\ iterations_since_last_improvement'
                               = iterations_since_last_improvement + 1
                     \/ /\ pc' = "raised"
                        /\ iterations_since_last_improvement'
                               = iterations_since_last_improvement
          /\ pc = "callback"
             => /\ pc' = "update_best"
                /\ iterations_since_last_improvement'
                       = iterations_since_last_improvement
          /\ pc = "update_best"
             => /\ pc' = "check"
                /\ iterations_since_last_improvement' = 0
          /\ pc \notin {"run", "score", "callback", "update_best"}
             => iterations_since_last_improvement'
                    = iterations_since_last_improvement]_vars

\* C2 witness: run returned with the counter at K after a reset and more than
\* K scored neighbours.
C2_Witness ==
    /\ pc = "done"
    /\ iterations_since_last_improvement = args.num_non_improve
    /\ callback_calls >= 1
    /\ evals > args.num_non_improve

\* C3: once run has started, the stored costs are the costs of the stored
\* rankings (current and best), and the returned cost is the cost of the
\* returned ranking.
C3_CostsMatchRankings ==
    /\ RunStarted =>
          /\ current_solution_cost = Cost(args.cost_function, current_solution)
          /\ best_solution_cost = Cost(args.cost_function, best_solution)
    /\ pc = "done" => result[2] = Cost(args.cost_function, result[1])

\* C3 witness: run returned a best ranking that is neither the initial nor the
\* final current ranking.
C3_Witness ==
    /\ pc = "done"
    /\ result[1] # args.initial_solution
    /\ result[1] # current_solution
    /\ current_solution # args.initial_solution

\* C4: scoring a neighbour with delta >= 0 always makes it the current
\* solution, with its cost, without a draw from the random source, without
\* changing the uphill counter and without an error, at any temperature.
C4_NonNegativeDeltaAccepted ==
    [][(pc = "score" /\ NeighbourCost - current_solution_cost >= 0)
        => /\ current_solution' = neighbour_solution
           /\ current_solution_cost' = NeighbourCost
           /\ accept_draws = 0
           /\ accept_draws' = 0
           /\ number_of_uphill_moves' = number_of_uphill_moves
           /\ pc' \in {"callback", "check"}]_vars

\* C4 witness: a neighbour with delta > 0 was taken at temperature zero, where
\* a worsening neighbour would raise ZeroDivisionError.
C4_Witness ==
    /\ pc \in {"callback", "check"}
    /\ delta_cost > 0
    /\ temperature = Zero
    /\ current_solution = neighbour_solution
    /\ accept_draws = 0

\* C5: the callback is called exactly in the iterations that find a new best,
\* once, with the new current cost and ranking, before best_solution and
\* best_solution_cost are updated: at the call best_solution_cost is the old
\* value and is strictly below the cost passed.
C5_CallbackOnNewBest ==
    /\ [](RunStarted =>
            IF pc = "update_best"
            THEN /\ callback_calls >= 1
                 /\ callback_args = <<current_solution_cost, current_solution>>
                 /\ best_solution_cost < current_solution_cost
            ELSE IF callback_calls = 0
                 THEN /\ best_solution = args.initial_solution
                      /\ best_solution_cost = InitialCost
                 ELSE callback_args = <<best_solution_cost, best_solution>>)
    /\ [][/\ (callback_calls' # callback_calls \/ callback_args' # callback_args)
             => /\ pc = "callback"
                /\ callback_calls' = callback_calls + 1
                /\ callback_args' = <<current_solution_cost, current_solution>>
                /\ current_solution = neighbour_solution
                /\ current_solution_cost = NeighbourCost
                /\ best_solution_cost < current_solution_cost
                /\ best_solution_cost' = best_solution_cost
                /\ best_solution' = best_solution
          /\ pc = "score"
             => (pc' = "callback"
                   <=> /\ NeighbourCost >= current_solution_cost
                       /\ NeighbourCost > best_solution_cost)
          /\ pc = "callback"
             => /\ callback_calls' = callback_calls + 1
                /\ pc' = "update_best"
          /\ pc = "update_best"
             => /\ pc' = "check"
                /\ best_solution' = current_solution
                /\ best_solution_cost' = current_solution_cost]_vars

\* C5 witness: the callback has just been called for the second time in a run
\* and the best is still the one of the first call.
C5_Witness ==
    /\ pc = "update_best"
    /\ callback_calls = 2
    /\ callback_args = <<current_solution_cost, current_solution>>
    /\ callback_args[1] > best_solution_cost
    /\ best_solution # args.initial_solution

\* C6: for a ranking of n >= 2 distinct elements, the ranking either generator
\* returns has the same length and the same elements as the input and differs
\* from it in at least one position.
C6_NeighbourIsDifferentPermutation ==
    pc = "score" =>
        /\ Len(neighbour_solution) = Len(current_solution)
        /\ Range(neighbour_solution) = Range(current_solution)
        /\ \E i \in 1..Len(current_solution) :
              neighbour_solution[i] # current_solution[i]

\* C6 witness: the relocation generator returned a move over two positions
\* after a re-roll.
C6_Witness ==
    /\ pc = "score"
    /\ args.neighbourhood_function = "relocate"
    /\ rounds >= 1
    /\ Abs(old_position - new_position) = 2
    /\ Len(current_solution) = 3

MalformedEngineParameters ==
    \/ args.initial_temperature.sgn <= 0
    \/ args.temperature_length < 1
    \/ args.num_non_improve < 1

\* C7: an engine given initial_temperature <= 0, temperature_length < 1 or
\* num_non_improve < 1 (and a ranking of at least 2 elements) is rejected
\* before run enters its loop or returns.
C7_MalformedParametersRejected ==
    (MalformedEngineParameters /\ Len(args.initial_solution) >= 2) =>
        pc \notin {"for", "generate", "reroll", "score", "callback", "update_best",
                   "check", "cool", "return", "done"}

\* the double h is half the double t
IsHalfOf(h, t) ==
    IF t.sgn = 0 \/ t.e = MinExp THEN h.sgn = 0
    ELSE h.sgn = t.sgn /\ h.e = t.e - 1

\* C8: the factory raises for every multiplier a < 0 and a > 1; for
\* 0 <= a <= 1, endpoints included, it returns a function that never changes
\* and maps every temperature T to a * T.
C8_CoolingScheduleFactory ==
    /\ [](pc # "factory" =>
            LET a == args.cooling_ratio_multiplier
            IN  IF a.sgn = -1 \/ (a.sgn = 1 /\ a.e > 0)
                THEN pc = "raised" /\ raised = "Exception"
                ELSE /\ raised # "Exception"
                     /\ cooling_schedule_function.cooling_ratio_multiplier = a)
    /\ [][/\ pc # "factory"
             => cooling_schedule_function' = cooling_schedule_function
          /\ (pc = "cool" /\ pc' # "cool")
             => LET a == args.cooling_ratio_multiplier
                IN  /\ a.sgn = 0 => temperature'.sgn = 0
                    /\ (a.sgn = 1 /\ a.e = 0) => temperature' = temperature
                    /\ (a.sgn = 1 /\ a.e = -1) => IsHalfOf(temperature', temperature)]_vars

\* C8 witness: the schedule made for a = 1/2 has been applied twice,
\* taking the temperature from 1 to 1/4.
C8_Witness ==
    /\ pc = "while"
    /\ cooling_steps = 2
    /\ args.cooling_ratio_multiplier = Pow2(-1)
    /\ args.initial_temperature = Pow2(0)
    /\ temperature = Pow2(-2)

\* C9: a generator given a ranking of fewer than 2 elements (by an engine
\* whose parameters are well formed) raises instead of returning a neighbour.
C9_ShortRankingRejected ==
    (pc = "score" /\ ~MalformedEngineParameters) => Len(current_solution) >= 2

\* C11: neither generator changes the ranking it is passed.  Every step of a
\* generator call (the adjacent swap, the sampling, a re-roll round, the
\* relocation) leaves the engine's current_solution as it was, and so does
\* the scoring step that rejects a worsening neighbour.
C11_GeneratorsLeaveRankingAlone ==
    [][/\ (pc \in {"generate", "reroll"} => current_solution' = current_solution)
       /\ (/\ pc = "score"
           /\ delta_cost' < 0
           /\ accept_draws' = accept_draws + 1
           /\ number_of_uphill_moves' = number_of_uphill_moves
           => current_solution' = current_solution)]_vars

\* a generated neighbour differs from the current solution and was rejected
C11_Witness ==
    /\ pc = "check"
    /\ delta_cost < 0
    /\ accept_draws = 1
    /\ Len(neighbour_solution) = Len(current_solution)
    /\ neighbour_solution # current_solution
    /\ current_solution_cost = Cost(args.cost_function, current_solution)

\* the multiplier lies strictly between 0 and 1 and the initial temperature
\* is positive
GeometricCooling ==
    /\ args.cooling_ratio_multiplier.sgn = 1
    /\ args.cooling_ratio_multiplier.e < 0
    /\ args.initial_temperature.sgn = 1

\* the exponent of T0 * a^i
GeometricExponent(i) ==
    args.initial_temperature.e + i * args.cooling_ratio_multiplier.e

AcceptsWorsening ==
    /\ pc = "score"
    /\ NeighbourCost < current_solution_cost
    /\ current_solution' = neighbour_solution

\* C13: number_of_uphill_moves starts at 0, grows by one in exactly the
\* iterations that accept a neighbour with delta_cost < 0 and is left alone by
\* every other step (delta_cost >= 0, a rejected worsening neighbour); the
\* third component of the returned triple is that count.
C13_UphillCountsAcceptedWorsening ==
    [][/\ (pc = "run" => number_of_uphill_moves' = 0)
       /\ (AcceptsWorsening
             => number_of_uphill_moves' = number_of_uphill_moves + 1)
       /\ (~AcceptsWorsening /\ pc # "run"
             => number_of_uphill_moves' = number_of_uphill_moves)
       /\ (pc = "return" => result'[3] = number_of_uphill_moves)]_vars

\* a returned run that accepted two worsening neighbours and scored others
C13_Witness ==
    /\ pc = "done"
    /\ result[3] = 2
    /\ evals > 2

\* C14: every iteration whose neighbour has delta_cost < 0 draws exactly one
\* value u, compares it with exp(delta_cost / temperature) and then either
\* takes the neighbour (cost updated, one more uphill move) or leaves the
\* current solution alone; in both cases the non-improvement counter grows by
\* one, the best solution and its cost are unchanged and the callback is not
\* invoked.
C14_WorseningNeighbourDrawsOnce ==
    [][pc = "score" /\ NeighbourCost < current_solution_cost
       => /\ pc' = "check"
          /\ accept_draws' = accept_draws + 1
          /\ iterations_since_last_improvement' =
                 iterations_since_last_improvement + 1
          /\ UNCHANGED <<best_solution, best_solution_cost, callback, temperature>>
          /\ \/ /\ current_solution' = neighbour_solution
                /\ current_solution_cost' = NeighbourCost
                /\ number_of_uphill_moves' = number_of_uphill_moves + 1
             \/ UNCHANGED <<current_solution, current_solution_cost,
                            number_of_uphill_moves>>]_vars

\* the same statement for the iterations scored at a positive temperature,
\* which holds: the divergence is confined to temperature = 0.0
C14_PositiveTemperatureDrawsOnce ==
    [][pc = "score" /\ NeighbourCost < current_solution_cost /\ temperature.sgn = 1
       => /\ pc' = "check"
          /\ accept_draws' = accept_draws + 1
          /\ iterations_since_last_improvement' =
                 iterations_since_last_improvement + 1
          /\ UNCHANGED <<best_solution, best_solution_cost, callback, temperature>>
          /\ \/ /\ current_solution' = neighbour_solution
                /\ current_solution_cost' = NeighbourCost
                /\ number_of_uphill_moves' = number_of_uphill_moves + 1
             \/ UNCHANGED <<current_solution, current_solution_cost,
                            number_of_uphill_moves>>]_vars

\* C15: the temperature is assigned only by the initialisation and by the
\* cooling step that follows each inner loop, whether the loop ran its full
\* length or was left by break; the neighbour evaluation number j (from 0)
\* is therefore scored after exactly j div L cooling steps, and a run that
\* returns after N evaluations has cooled exactly ceil(N / L) times.
C15_CoolingOncePerLevel ==
    [][/\ (temperature' # temperature => pc \in {"run", "cool"})
       /\ (pc = "cool" => cooling_steps' = cooling_steps + 1)
       /\ (pc # "cool" => cooling_steps' = cooling_steps)
       /\ (pc = "score"
             => cooling_steps = evals \div args.temperature_length)
       /\ (pc' = "done"
             => cooling_steps' = (evals' + args.temperature_length - 1)
                                     \div args.temperature_length)]_vars

\* a returned run with two evaluations per level whose last level was left
\* by break after its first evaluation
C15_Witness ==
    /\ pc = "done"
    /\ args.temperature_length = 2
    /\ evals = 3
    /\ cooling_steps = 2
    /\ temperature # args.initial_temperature

\* C16: a neighbour whose cost equals the current cost (delta_cost = 0) is
\* taken as the current solution without a draw and without counting an
\* uphill move; it is never a new best (no callback, best solution and best
\* cost unchanged) and the non-improvement counter grows by one.
C16_ZeroDeltaAcceptedNotBest ==
    [][pc = "score" /\ NeighbourCost = current_solution_cost
       => /\ current_solution' = neighbour_solution
          /\ current_solution_cost' = NeighbourCost
          /\ accept_draws' = accept_draws
          /\ number_of_uphill_moves' = number_of_uphill_moves
          /\ UNCHANGED <<best_solution, best_solution_cost, callback>>
          /\ pc' = "check"
          /\ iterations_since_last_improvement' =
                 iterations_since_last_improvement + 1]_vars

\* a neighbour as good as the best solution has replaced the current solution
\* and the best solution is still the earlier ranking
C16_Witness ==
    /\ pc = "check"
    /\ delta_cost = 0
    /\ accept_draws = 0
    /\ current_solution = neighbour_solution
    /\ current_solution_cost = best_solution_cost
    /\ current_solution # best_solution
    /\ callback_calls = 0
    /\ iterations_since_last_improvement >= 1

\* the ranking without the element x, in order
Without(ranking, x) == SelectSeq(ranking, LAMBDA y : y # x)

\* C17: for a ranking of n >= 2 elements the relocation generator returns
\* positions 0 <= old_position, new_position < n with old_position #
\* new_position and a ranking of the same length in which the element that
\* was at index old_position is at index new_position and the other elements
\* are in their former relative order.
C17_RelocationMovesOneElement ==
    pc = "score" /\ args.neighbourhood_function = "relocate"
    => LET n == Len(current_solution)
       IN  /\ n >= 2
           /\ old_position \in 0..(n - 1)
           /\ new_position \in 0..(n - 1)
           /\ old_position # new_position
           /\ Len(neighbour_solution) = n
           /\ neighbour_solution[new_position + 1] =
                  current_solution[old_position + 1]
           /\ Without(neighbour_solution, current_solution[old_position + 1]) =
                  Without(current_solution, current_solution[old_position + 1])

\* an element has been moved across another one, from one end of a ranking
\* of three to the other
C17_Witness ==
    /\ pc = "score"
    /\ args.neighbourhood_function = "relocate"
    /\ Abs(old_position - new_position) = 2
    /\ neighbour_solution[new_position + 1] = current_solution[old_position + 1]

\* C18 as stated: whatever the random source returns, a call of the
\* relocation generator that has sampled its positions leaves the
\* adjacency-avoidance loop and returns.
C18_RerollLoopReturns == [](pc = "reroll" => <>(pc # "reroll"))

\* C18, amended: the loop has no bound.  A round (coin flip and re-roll) is
\* entered only while the positions are adjacent and re-rolls new_position
\* among the positions other than old_position; a call whose positions are
\* not adjacent returns at once and consumes no further draw, so a call whose
\* sampled pair is not adjacent consumes no coin flip at all; while the
\* positions are adjacent either another round or the return can follow.
C18_RerollOnlyWhileAdjacent ==
    [][/\ (pc = "generate" /\ pc' = "reroll" => rounds' = 0 /\ coin_flips' = 0)
       /\ (pc = "reroll" /\ pc' = "reroll"
             => /\ are_adjacent
                /\ old_position' = old_position
                /\ new_position' \in 0..(Len(current_solution) - 1)
                /\ new_position' # old_position)
       /\ (pc = "reroll" /\ ~are_adjacent
             => pc' = "score" /\ coin_flips' = coin_flips)
       /\ (pc = "reroll" /\ pc' = "score" /\ are_adjacent
             => coin_flips' = coin_flips + 1)]_vars

\* after MaxRounds rounds on a ranking of two elements the positions are
\* still adjacent and a further round can follow
C18_Witness ==
    /\ pc = "reroll"
    /\ Len(current_solution) = 2
    /\ rounds = MaxRounds
    /\ are_adjacent
    /\ ENABLED RelocateReroll

\* C19: between iterations the current cost never exceeds the best cost, and
\* the best cost is the highest cost computed so far, the initial solution's
\* and every scored neighbour's, rejected ones included; the cost that run
\* returns is that maximum.
C19_BestCostIsMaximumScored ==
    /\ RunStarted /\ pc \notin {"callback", "update_best"}
         => /\ current_solution_cost <= best_solution_cost
            /\ best_solution_cost = max_scored_cost
    /\ pc = "done" => result[2] = max_scored_cost

\* a returned run that found a new best, later took a worsening neighbour and
\* ended with a current solution below the best
C19_Witness ==
    /\ pc = "done"
    /\ result[2] > InitialCost
    /\ number_of_uphill_moves >= 1
    /\ current_solution_cost < best_solution_cost
    /\ evals >= 3

\* the number of distinct values the cost function takes on the rankings of
\* the run
DistinctCosts ==
    Cardinality({Cost(args.cost_function, r) :
                    r \in Perms(Len(args.initial_solution))})

\* the evaluation bound alone, which holds of every run
C20_EvaluationsBounded ==
    RunStarted => evals <= args.num_non_improve * DistinctCosts

\* C20: with temperature_length >= 1, num_non_improve = K >= 1 and a cost
\* function of at most C distinct values, no execution of run ends otherwise
\* than by returning: it never raises, it scores at most K * C neighbours and
\* it returns with the non-improvement counter at K or more, whatever the
\* random draws and the cooling schedule.
C20_RunReturnsWithinBound ==
    /\ RunStarted => pc # "raised"
    /\ RunStarted => evals <= args.num_non_improve * DistinctCosts
    /\ pc = "done" => iterations_since_last_improvement >= args.num_non_improve

====
